---- MODULE Spec2Model ----
(***************************************************************************)
(* The PBA parachain collator: the state transition function of the pvf    *)
(* crate (execute), the State Store (StateDb) and the collation function   *)
(* with its "seconded" watcher task of the collator crate.                 *)
(*                                                                         *)
(* Scaling.  A u64 is U64Bytes little-endian bytes of ByteBase values each *)
(* (8 bytes of 256 values in the program), so the arithmetic is modulo     *)
(* ByteBase^U64Bytes.  A 32-byte digest is one cell of an encoding; blake3 *)
(* and blake2 are modelled by polynomial digests over the encoded cells.   *)
(***************************************************************************)
EXTENDS Integers, Sequences, FiniteSets, TLC

\* ------------------------------------------------------------------ bounds
U64Bytes == 2
ByteBase == 4
MaxRounds == 2

\* ------------------------------------------------------- program constants
\* const ADD: u64 = 7
ADD == 7
\* <[u8; 32]>::default(): 32 zero bytes
ZeroHash == 0

VARIABLES
    head_to_state,   \* StateDb.head_to_state: HashMap<HeadData, u64>
    lock_holder,     \* the round holding the MutexGuard of Collator.state, 0 = none
    poisoned,        \* the Mutex's poison flag
    process,         \* "running" | "exited" (std::process::exit)
    pc,              \* per round: position inside the collation closure
    parent,          \* per round: Option<HeadData>, the decoded parent head
    block_data,      \* per round: Option<BlockData>, advance's `block`
    head_data,       \* per round: Option<HeadData>, advance's `new_head`
    collation,       \* per round: Option<Collation> returned to the scheduler
    watch_hash,      \* per round: Option<digest>, compressed_pov.hash() of the watcher
    channel,         \* per round: the oneshot channel, [st, msg]
    watcher,         \* per round: "none" | "awaiting" | "Confirmed" | "Mismatched" | "Abandoned"
    res,             \* per round: Option<CollationSecondedSignal> the watcher received
    genesis_export,  \* Option<Vec<u8>>: the last result of Collator::genesis_head
    ex_in,           \* arguments of a direct call of execute (Option)
    ex_out           \* its result (Option)

vars == <<head_to_state, lock_holder, poisoned, process, pc, parent, block_data,
          head_data, collation, watch_hash, channel, watcher, res, genesis_export,
          ex_in, ex_out>>

Rounds == 1..MaxRounds

None == <<>>
Some(x) == <<x>>
IsSome(o) == o # <<>>
Unwrap(o) == o[1]

\* ------------------------------------------------------------- arithmetic
RECURSIVE Pow(_, _)
Pow(b, e) == IF e = 0 THEN 1 ELSE b * Pow(b, e - 1)

U64Modulus == Pow(ByteBase, U64Bytes)
MaxU64 == U64Modulus - 1

\* Mutant of wrapping_add: the sum saturates at the maximum
wrapping_add_saturating(a, b) == IF a + b > MaxU64 THEN MaxU64 ELSE a + b

wrapping_add(a, b) == (a + b) % U64Modulus

\* ---------------------------------------------------------- SCALE encoding
\* u64::encode: fixed width, little endian
u64_encode(n) == [i \in 1..U64Bytes |-> (n \div Pow(ByteBase, i - 1)) % ByteBase]

RECURSIVE u64_from_le(_)
u64_from_le(bytes) ==
    IF bytes = <<>> THEN 0 ELSE Head(bytes) + ByteBase * u64_from_le(Tail(bytes))

\* u64::decode: the first U64Bytes bytes of the input
u64_decode(bytes) ==
    IF Len(bytes) < U64Bytes THEN None ELSE Some(u64_from_le(SubSeq(bytes, 1, U64Bytes)))

\* #[derive(Encode)] HeadData: number, parent_hash, post_state in field order
HeadData_encode(h) == u64_encode(h.number) \o <<h.parent_hash, h.post_state>>

\* HeadData::decode(&mut &bytes[..]): reads the fields in order, fails on a
\* short input and leaves any trailing bytes unread
HeadData_decode(bytes) ==
    IF Len(bytes) < U64Bytes + 2 THEN None
    ELSE Some([number |-> Unwrap(u64_decode(bytes)),
               parent_hash |-> bytes[U64Bytes + 1],
               post_state |-> bytes[U64Bytes + 2]])

\* Mutant of BlockData_encode: the fields are written in the other order
BlockData_encode_swapped(b) == u64_encode(b.add) \o u64_encode(b.state)

\* #[derive(Encode)] BlockData: state, add
BlockData_encode(b) == u64_encode(b.state) \o u64_encode(b.add)

BlockData_decode(bytes) ==
    IF Len(bytes) < 2 * U64Bytes THEN None
    ELSE Some([state |-> Unwrap(u64_decode(bytes)),
               add |-> Unwrap(u64_decode(SubSeq(bytes, U64Bytes + 1, 2 * U64Bytes)))])

\* ----------------------------------------------------------------- digests
RECURSIVE hash_fold(_, _)
hash_fold(data, acc) ==
    IF data = <<>> THEN acc
    ELSE hash_fold(Tail(data), (acc * 31 + Head(data) + 1) % 10007)

\* pub fn hash(data: &[u8]) -> [u8; 32]  (blake3)
hash(data) == hash_fold(data, 0)

\* pub fn hash_state(state: u64) -> [u8; 32]
hash_state(state) == hash(u64_encode(state))

\* HeadData::hash
HeadData_hash(h) == hash(HeadData_encode(h))

\* ------------------------------------------------- state transition function
Ok(h) == [tag |-> "Ok", val |-> Some(h)]
Err_StateMismatch == [tag |-> "StateMismatch", val |-> None]
Panic == [tag |-> "Panic", val |-> None]

\* Mutant of execute: the pre-state validation is missing
execute_unchecked(overflow_checks, parent_hash, parent_head, block) ==
    IF parent_hash # HeadData_hash(parent_head) THEN Panic
    ELSE IF parent_head.number = MaxU64 /\ overflow_checks THEN Panic
    ELSE Ok([number |-> (parent_head.number + 1) % U64Modulus,
             parent_hash |-> parent_hash,
             post_state |-> hash_state(wrapping_add(block.state, block.add))])

\* Mutant of execute: the new head keeps the parent's number
execute_same_number(overflow_checks, parent_hash, parent_head, block) ==
    IF parent_hash # HeadData_hash(parent_head) THEN Panic
    ELSE IF hash_state(block.state) # parent_head.post_state THEN Err_StateMismatch
    ELSE Ok([number |-> parent_head.number,
             parent_hash |-> parent_hash,
             post_state |-> hash_state(wrapping_add(block.state, block.add))])

\* pub fn execute(parent_hash, parent_head, block_data) -> Result<HeadData, StateMismatch>
\* overflow_checks is the build's setting for `parent_head.number + 1`: the
\* addition panics when it is on and wraps when it is off.
execute(overflow_checks, parent_hash, parent_head, block) ==
    IF parent_hash # HeadData_hash(parent_head) THEN Panic
    ELSE IF hash_state(block.state) # parent_head.post_state THEN Err_StateMismatch
    ELSE LET new_state == wrapping_add(block.state, block.add) IN
         IF parent_head.number = MaxU64 /\ overflow_checks THEN Panic
         ELSE Ok([number |-> (parent_head.number + 1) % U64Modulus,
                  parent_hash |-> parent_hash,
                  post_state |-> hash_state(new_state)])

\* ------------------------------------------------------------- State Store
genesis_state == [number |-> 0, parent_hash |-> ZeroHash, post_state |-> hash_state(0)]

\* Mutant of genesis: the genesis head is mapped to a state other than 0
genesis_nonzero == (genesis_state :> 1)

\* StateDb::genesis
genesis == (genesis_state :> 0)

\* Mutant of insert: the map keeps only the newest entry
insert_replacing(map, key, value) == (key :> value)

\* HashMap::insert
insert(map, key, value) ==
    [k \in (DOMAIN map) \cup {key} |-> IF k = key THEN value ELSE map[k]]

\* Mutant of advance_block: the block carries another increment than ADD
advance_block_other_add(map, parent_head) ==
    IF parent_head \in DOMAIN map
    THEN Some([state |-> map[parent_head], add |-> 1])
    ELSE None

\* Mutant of advance_block: a parent the store does not hold counts as state 0
advance_block_or_default(map, parent_head) ==
    IF parent_head \in DOMAIN map
    THEN Some([state |-> map[parent_head], add |-> ADD])
    ELSE Some([state |-> 0, add |-> ADD])

\* advance, line 58-61: the block built from the parent's recorded state
advance_block(map, parent_head) ==
    IF parent_head \in DOMAIN map
    THEN Some([state |-> map[parent_head], add |-> ADD])
    ELSE None

\* advance, line 63-64
advance_execute(overflow_checks, parent_head, block) ==
    execute(overflow_checks, HeadData_hash(parent_head), parent_head, block)

\* Mutant of advance_insert: the value of the block's pre-state is stored
advance_insert_stale(map, new_head, block) ==
    insert(map, new_head, block.state)

\* Mutant of advance_insert: the new head is numbered by the size of the store
advance_insert_renumbered(map, new_head, block) ==
    insert(map, [new_head EXCEPT !.number = Cardinality(DOMAIN map)],
           wrapping_add(block.state, ADD))

\* advance, line 66
advance_insert(map, new_head, block) ==
    insert(map, new_head, wrapping_add(block.state, ADD))

\* ------------------------------------------------------ proof of validity
RECURSIVE run_length(_)
run_length(bytes) ==
    IF Len(bytes) >= 2 /\ bytes[2] = bytes[1] THEN 1 + run_length(Tail(bytes)) ELSE 1

RECURSIVE compress_runs(_)
compress_runs(bytes) ==
    IF bytes = <<>> THEN <<>>
    ELSE LET n == run_length(bytes) IN
         <<n, Head(bytes)>> \o compress_runs(SubSeq(bytes, n + 1, Len(bytes)))

\* polkadot_node_primitives::maybe_compress_pov: the block data is replaced by
\* the compression prefix followed by the compressed bytes (a block data of two
\* u64 is far below the size limit, so the compression never falls back to raw)
maybe_compress_pov(pov) == [block_data |-> <<82>> \o compress_runs(pov.block_data)]

RECURSIVE blake2_fold(_, _)
blake2_fold(data, acc) ==
    IF data = <<>> THEN acc
    ELSE blake2_fold(Tail(data), (acc * 37 + Head(data) + 1) % 10009)

\* PoV::hash: the digest of the encoded PoV (length prefix, then the bytes)
PoV_hash(pov) == blake2_fold(<<Len(pov.block_data)>> \o pov.block_data, 0)

\* Mutant of seconded_matches: any Seconded statement is accepted
seconded_matches_any_digest(payload, digest) == payload.kind = "Seconded"

\* matches!(res.statement.payload(),
\*          Statement::Seconded(s) if s.descriptor.pov_hash == compressed_pov.hash())
seconded_matches(payload, digest) ==
    payload.kind = "Seconded" /\ payload.hash = digest

\* ------------------------------------------------------------ initial state
NoRound == [r \in Rounds |-> None]

\* Collator::new() and no round invoked yet
InitCollator ==
    /\ head_to_state = genesis
    /\ lock_holder = 0
    /\ poisoned = FALSE
    /\ process = "running"
    /\ pc = [r \in Rounds |-> "idle"]
    /\ parent = NoRound
    /\ block_data = NoRound
    /\ head_data = NoRound
    /\ collation = NoRound
    /\ watch_hash = NoRound
    /\ channel = [r \in Rounds |-> [st |-> "none", msg |-> None]]
    /\ watcher = [r \in Rounds |-> "none"]
    /\ res = NoRound
    /\ genesis_export = None

Init ==
    /\ InitCollator
    /\ ex_in = None
    /\ ex_out = None

\* --------------------------------------------------- inputs of the scheduler
\* A head the store never holds: number 1 on top of no parent
unknown_head == [number |-> 1, parent_hash |-> ZeroHash, post_state |-> hash_state(0)]

\* The parent-head bytes a round may be given: the encoding of a head of the
\* store, of a head the store does not hold, an encoding followed by a stray
\* byte, and an encoding cut short
ParentInputs ==
    {HeadData_encode(h) : h \in DOMAIN head_to_state}
    \cup {HeadData_encode(unknown_head),
          HeadData_encode(genesis_state) \o <<0>>,
          SubSeq(HeadData_encode(genesis_state), 1, U64Bytes + 1)}

\* ------------------------------------------------------- the collation closure
roundVars == <<pc, parent, block_data, head_data, collation>>
watcherVars == <<watch_hash, channel, watcher, res>>
mutexVars == <<lock_holder, poisoned>>
execVars == <<ex_in, ex_out>>

\* Mutant of StartRound: the mutex is taken before the parent head is decoded
StartRound_lock_first(r, bytes) ==
    /\ process = "running"
    /\ pc[r] = "idle"
    /\ \A q \in Rounds : q < r => pc[q] # "idle"
    /\ lock_holder = 0
    /\ ~poisoned
    /\ LET decoded == HeadData_decode(bytes) IN
       IF IsSome(decoded)
       THEN /\ parent' = [parent EXCEPT ![r] = decoded]
            /\ pc' = [pc EXCEPT ![r] = "locked"]
            /\ lock_holder' = r
            /\ UNCHANGED poisoned
       ELSE /\ pc' = [pc EXCEPT ![r] = "panicked"]
            /\ poisoned' = TRUE
            /\ UNCHANGED <<parent, lock_holder>>
    /\ UNCHANGED <<head_to_state, process, block_data, head_data, collation,
                   watcherVars, genesis_export, execVars>>

\* line 115-117: the closure is invoked and decodes the parent head
StartRound(r, bytes) ==
    /\ process = "running"
    /\ pc[r] = "idle"
    /\ \A q \in Rounds : q < r => pc[q] # "idle"
    /\ LET decoded == HeadData_decode(bytes) IN
       IF IsSome(decoded)
       THEN /\ parent' = [parent EXCEPT ![r] = decoded]
            /\ pc' = [pc EXCEPT ![r] = "decoded"]
       ELSE /\ pc' = [pc EXCEPT ![r] = "panicked"]
            /\ UNCHANGED parent
    /\ UNCHANGED <<head_to_state, mutexVars, process, block_data, head_data, collation,
                   watcherVars, genesis_export, execVars>>

\* Mutant of AcquireLock: the state is entered without waiting for the mutex
AcquireLock_unguarded(r) ==
    /\ process = "running"
    /\ pc[r] = "decoded"
    /\ pc' = [pc EXCEPT ![r] = "locked"]
    /\ lock_holder' = r
    /\ UNCHANGED <<head_to_state, poisoned, process, parent, block_data, head_data,
                   collation, watcherVars, genesis_export, execVars>>

\* line 119: state.lock().unwrap()
\* Mutant of AcquireLock: a poisoned mutex is entered like a healthy one
AcquireLock_ignoring_poison(r) ==
    /\ process = "running"
    /\ pc[r] = "decoded"
    /\ lock_holder = 0
    /\ pc' = [pc EXCEPT ![r] = "locked"]
    /\ lock_holder' = r
    /\ UNCHANGED <<head_to_state, poisoned, process, parent, block_data, head_data,
                   collation, watcherVars, genesis_export, execVars>>

AcquireLock(r) ==
    /\ process = "running"
    /\ pc[r] = "decoded"
    /\ lock_holder = 0
    /\ IF poisoned
       THEN /\ pc' = [pc EXCEPT ![r] = "panicked"]
            /\ UNCHANGED lock_holder
       ELSE /\ pc' = [pc EXCEPT ![r] = "locked"]
            /\ lock_holder' = r
    /\ UNCHANGED <<head_to_state, poisoned, process, parent, block_data, head_data,
                   collation, watcherVars, genesis_export, execVars>>

\* A panic that unwinds through the MutexGuard: the mutex is poisoned and released
PanicInAdvance(r) ==
    /\ pc' = [pc EXCEPT ![r] = "panicked"]
    /\ poisoned' = TRUE
    /\ lock_holder' = IF lock_holder = r THEN 0 ELSE lock_holder

\* advance, line 58-61: .get(&parent_head).copied().expect("unknown parent head")
AdvanceLookup(r) ==
    /\ process = "running"
    /\ pc[r] = "locked"
    /\ LET block == advance_block(head_to_state, Unwrap(parent[r])) IN
       IF IsSome(block)
       THEN /\ block_data' = [block_data EXCEPT ![r] = block]
            /\ pc' = [pc EXCEPT ![r] = "looked_up"]
            /\ UNCHANGED mutexVars
       ELSE /\ PanicInAdvance(r)
            /\ UNCHANGED block_data
    /\ UNCHANGED <<head_to_state, process, parent, head_data, collation, watcherVars,
                   genesis_export, execVars>>

\* advance, line 63-64: execute(..).expect("Produces valid block")
AdvanceExecute(r) ==
    /\ process = "running"
    /\ pc[r] = "looked_up"
    /\ \E overflow_checks \in BOOLEAN :
         LET result == advance_execute(overflow_checks, Unwrap(parent[r]),
                                       Unwrap(block_data[r])) IN
         IF result.tag = "Ok"
         THEN /\ head_data' = [head_data EXCEPT ![r] = result.val]
              /\ pc' = [pc EXCEPT ![r] = "executed"]
              /\ UNCHANGED mutexVars
         ELSE /\ PanicInAdvance(r)
              /\ UNCHANGED head_data
    /\ UNCHANGED <<head_to_state, process, parent, block_data, collation, watcherVars,
                   genesis_export, execVars>>

\* advance, line 66-68: the insertion, and the return of (block, new_head)
AdvanceInsert(r) ==
    /\ process = "running"
    /\ pc[r] = "executed"
    /\ head_to_state' =
         advance_insert(head_to_state, Unwrap(head_data[r]), Unwrap(block_data[r]))
    /\ pc' = [pc EXCEPT ![r] = "inserted"]
    /\ UNCHANGED <<mutexVars, process, parent, block_data, head_data, collation,
                   watcherVars, genesis_export, execVars>>

\* Mutant of ReleaseLock: the guard outlives the statement and is never dropped
ReleaseLock_guard_kept(r) ==
    /\ process = "running"
    /\ pc[r] = "inserted"
    /\ pc' = [pc EXCEPT ![r] = "advanced"]
    /\ UNCHANGED <<head_to_state, mutexVars, process, parent, block_data, head_data,
                   collation, watcherVars, genesis_export, execVars>>

\* line 119, end of the statement: the temporary MutexGuard is dropped
ReleaseLock(r) ==
    /\ process = "running"
    /\ pc[r] = "inserted"
    /\ lock_holder' = IF lock_holder = r THEN 0 ELSE lock_holder
    /\ pc' = [pc EXCEPT ![r] = "advanced"]
    /\ UNCHANGED <<head_to_state, poisoned, process, parent, block_data, head_data,
                   collation, watcherVars, genesis_export, execVars>>

\* line 127-137: the collation built from (block_data, head_data); the
\* watermark is validation_data.relay_parent_number, here the round's number
make_collation(block, head, relay_parent_number) ==
    [upward_messages |-> <<>>,
     horizontal_messages |-> <<>>,
     new_validation_code |-> None,
     head_data |-> HeadData_encode(head),
     proof_of_validity |-> [block_data |-> BlockData_encode(block)],
     processed_downward_messages |-> 0,
     hrmp_watermark |-> relay_parent_number]

\* line 121-166: the collation is built, the channel created, the watcher
\* spawned and the CollationResult returned
Produce(r) ==
    /\ process = "running"
    /\ pc[r] = "advanced"
    /\ LET c == make_collation(Unwrap(block_data[r]), Unwrap(head_data[r]), r)
           compressed_pov == maybe_compress_pov(c.proof_of_validity) IN
       /\ collation' = [collation EXCEPT ![r] = Some(c)]
       /\ watch_hash' = [watch_hash EXCEPT ![r] = Some(PoV_hash(compressed_pov))]
    /\ channel' = [channel EXCEPT ![r] = [st |-> "open", msg |-> None]]
    /\ watcher' = [watcher EXCEPT ![r] = "awaiting"]
    /\ pc' = [pc EXCEPT ![r] = "returned"]
    /\ UNCHANGED <<head_to_state, mutexVars, process, parent, block_data, head_data,
                   res, genesis_export, execVars>>

\* ------------------------------------------------------ the external scheduler
\* The payloads the scheduler may send for round r: a Seconded statement for the
\* digest of the compressed proof, one for the digest of the raw proof, and a
\* Valid statement
Signals(r) ==
    IF collation[r] = None THEN {}
    ELSE {[kind |-> "Seconded", hash |-> Unwrap(watch_hash[r])],
          [kind |-> "Seconded", hash |-> PoV_hash(Unwrap(collation[r]).proof_of_validity)],
          [kind |-> "Valid", hash |-> Unwrap(watch_hash[r])]}

\* result_sender.send(signal)
SendSignal(r, payload) ==
    /\ process = "running"
    /\ channel[r].st = "open"
    /\ channel' = [channel EXCEPT ![r] = [st |-> "sent", msg |-> Some(payload)]]
    /\ UNCHANGED <<head_to_state, mutexVars, process, roundVars, watch_hash, watcher,
                   res, genesis_export, execVars>>

\* result_sender is dropped without a send
DropSender(r) ==
    /\ process = "running"
    /\ channel[r].st = "open"
    /\ channel' = [channel EXCEPT ![r] = [st |-> "closed", msg |-> None]]
    /\ UNCHANGED <<head_to_state, mutexVars, process, roundVars, watch_hash, watcher,
                   res, genesis_export, execVars>>

\* ------------------------------------------------------ the seconded watcher
\* Mutant of WatcherResolve: a mismatch is logged and the process keeps running
WatcherResolve_log_only(r) ==
    /\ process = "running"
    /\ watcher[r] = "awaiting"
    /\ channel[r].st \in {"sent", "closed"}
    /\ IF channel[r].st = "sent"
       THEN /\ res' = [res EXCEPT ![r] = channel[r].msg]
            /\ channel' = [channel EXCEPT ![r] = [st |-> "taken", msg |-> None]]
            /\ IF seconded_matches(Unwrap(channel[r].msg), Unwrap(watch_hash[r]))
               THEN watcher' = [watcher EXCEPT ![r] = "Confirmed"]
               ELSE watcher' = [watcher EXCEPT ![r] = "Mismatched"]
       ELSE /\ watcher' = [watcher EXCEPT ![r] = "Abandoned"]
            /\ UNCHANGED <<res, channel>>
    /\ UNCHANGED <<head_to_state, mutexVars, process, roundVars, watch_hash,
                   genesis_export, execVars>>

\* Mutant of WatcherResolve: a closed channel is handled like a mismatch
WatcherResolve_closed_fatal(r) ==
    /\ process = "running"
    /\ watcher[r] = "awaiting"
    /\ channel[r].st \in {"sent", "closed"}
    /\ IF channel[r].st = "sent"
       THEN /\ res' = [res EXCEPT ![r] = channel[r].msg]
            /\ channel' = [channel EXCEPT ![r] = [st |-> "taken", msg |-> None]]
            /\ IF seconded_matches(Unwrap(channel[r].msg), Unwrap(watch_hash[r]))
               THEN /\ watcher' = [watcher EXCEPT ![r] = "Confirmed"]
                    /\ UNCHANGED process
               ELSE /\ watcher' = [watcher EXCEPT ![r] = "Mismatched"]
                    /\ process' = "exited"
       ELSE /\ watcher' = [watcher EXCEPT ![r] = "Abandoned"]
            /\ process' = "exited"
            /\ UNCHANGED <<res, channel>>
    /\ UNCHANGED <<head_to_state, mutexVars, roundVars, watch_hash, genesis_export,
                   execVars>>

\* Mutant of WatcherResolve: recv.await only resolves on a delivered result
WatcherResolve_sent_only(r) ==
    /\ process = "running"
    /\ watcher[r] = "awaiting"
    /\ channel[r].st = "sent"
    /\ res' = [res EXCEPT ![r] = channel[r].msg]
    /\ channel' = [channel EXCEPT ![r] = [st |-> "taken", msg |-> None]]
    /\ IF seconded_matches(Unwrap(channel[r].msg), Unwrap(watch_hash[r]))
       THEN /\ watcher' = [watcher EXCEPT ![r] = "Confirmed"]
            /\ UNCHANGED process
       ELSE /\ watcher' = [watcher EXCEPT ![r] = "Mismatched"]
            /\ process' = "exited"
    /\ UNCHANGED <<head_to_state, mutexVars, roundVars, watch_hash, genesis_export,
                   execVars>>

\* line 146-159: recv.await resolves
WatcherResolve(r) ==
    /\ process = "running"
    /\ watcher[r] = "awaiting"
    /\ channel[r].st \in {"sent", "closed"}
    /\ IF channel[r].st = "sent"
       THEN /\ res' = [res EXCEPT ![r] = channel[r].msg]
            /\ channel' = [channel EXCEPT ![r] = [st |-> "taken", msg |-> None]]
            /\ IF seconded_matches(Unwrap(channel[r].msg), Unwrap(watch_hash[r]))
               THEN /\ watcher' = [watcher EXCEPT ![r] = "Confirmed"]
                    /\ UNCHANGED process
               ELSE /\ watcher' = [watcher EXCEPT ![r] = "Mismatched"]
                    /\ process' = "exited"
       ELSE /\ watcher' = [watcher EXCEPT ![r] = "Abandoned"]
            /\ UNCHANGED <<res, channel, process>>
    /\ UNCHANGED <<head_to_state, mutexVars, roundVars, watch_hash, genesis_export,
                   execVars>>

\* ------------------------------------------------------------- genesis export
\* Mutant of genesis_head: the key is taken from the collator's own store,
\* whose iteration order puts the newest head first
genesis_head_of_own_store ==
    HeadData_encode(CHOOSE k \in DOMAIN head_to_state :
                        \A j \in DOMAIN head_to_state : j.number <= k.number)

\* Collator::genesis_head: the encoded key of a fresh StateDb::genesis()
genesis_head == HeadData_encode(CHOOSE k \in DOMAIN genesis : TRUE)

GenesisHead ==
    /\ process = "running"
    /\ genesis_export' = Some(genesis_head)
    /\ UNCHANGED <<head_to_state, mutexVars, process, roundVars, watcherVars, execVars>>

Next ==
    \/ \E r \in Rounds : \E bytes \in ParentInputs : StartRound(r, bytes)
    \/ \E r \in Rounds : AcquireLock(r)
    \/ \E r \in Rounds : AdvanceLookup(r)
    \/ \E r \in Rounds : AdvanceExecute(r)
    \/ \E r \in Rounds : AdvanceInsert(r)
    \/ \E r \in Rounds : ReleaseLock(r)
    \/ \E r \in Rounds : Produce(r)
    \/ \E r \in Rounds : \E payload \in Signals(r) : SendSignal(r, payload)
    \/ \E r \in Rounds : DropSender(r)
    \/ \E r \in Rounds : WatcherResolve(r)
    \/ GenesisHead

Spec == Init /\ [][Next]_vars

\* line 142-162: the spawned task is polled by the executor, so a recv.await
\* that can resolve does resolve while the process runs
SpecFair == Spec /\ \A r \in Rounds : WF_vars(WatcherResolve(r))

\* ------------------------------------------------- execute called directly
\* The arguments of a direct call: heads at both ends of the number range, with
\* a post_state that is the digest of a state or of nothing, a parent_hash that
\* is or is not the digest of the head, and bodies around the wrap of the state
ExecHeads ==
    [number : {0, 1, MaxU64},
     parent_hash : {ZeroHash},
     post_state : {hash_state(0), hash_state(MaxU64 - 3), ZeroHash}]

ExecBlocks == [state : {0, ADD, MaxU64 - 3, MaxU64}, add : {0, ADD, MaxU64}]

ExecInputs ==
    {[parent_hash |-> ph, parent_head |-> h, block |-> b] :
        ph \in {ZeroHash} \cup {HeadData_hash(g) : g \in ExecHeads},
        h \in ExecHeads, b \in ExecBlocks}

InitExec ==
    /\ InitCollator
    /\ ex_in \in {Some(i) : i \in ExecInputs}
    /\ ex_out = None

ExecuteCall ==
    /\ ex_in # None
    /\ ex_out = None
    /\ \E overflow_checks \in BOOLEAN :
         ex_out' = Some(execute(overflow_checks, Unwrap(ex_in).parent_hash,
                                Unwrap(ex_in).parent_head, Unwrap(ex_in).block))
    /\ UNCHANGED <<head_to_state, mutexVars, process, roundVars, watcherVars,
                   genesis_export, ex_in>>

NextExec == ExecuteCall

SpecExec == InitExec /\ [][NextExec]_vars

\* ======================================================================
\* Properties
\* ======================================================================
Resolved(r) == watcher[r] \in {"Confirmed", "Mismatched", "Abandoned"}

\* The digest of the proof of round r's collation as it is transmitted
ProofDigest(r) == PoV_hash(maybe_compress_pov(Unwrap(collation[r]).proof_of_validity))

\* C1: a watcher spawned for a collation with proof digest D ends Confirmed
\* exactly when the signal it received is a Seconded statement whose pov_hash is
\* D; every other received signal ends it Mismatched with the process exited; a
\* watcher that ended without a signal found its channel closed and is Abandoned;
\* a watcher that has not ended has consumed no signal.
C1_ConfirmationMatching ==
    \A r \in Rounds :
        /\ ~Resolved(r) => res[r] = None
        /\ Resolved(r) =>
             IF res[r] # None
             THEN LET payload == Unwrap(res[r])
                      accepts == payload.kind = "Seconded" /\ payload.hash = ProofDigest(r)
                  IN  /\ watcher[r] = "Confirmed" <=> accepts
                      /\ ~accepts => watcher[r] = "Mismatched" /\ process = "exited"
             ELSE watcher[r] = "Abandoned" /\ channel[r].st = "closed"

\* One watcher confirmed, another ended Mismatched on a Seconded statement for
\* another digest
C1_Witness ==
    \E r1, r2 \in Rounds :
        /\ watcher[r1] = "Confirmed"
        /\ watcher[r2] = "Mismatched"
        /\ Unwrap(res[r2]).kind = "Seconded"
        /\ Unwrap(res[r2]).hash # ProofDigest(r2)

InsideStore(r) == pc[r] \in {"locked", "looked_up", "executed", "inserted"}

\* C2: at most one round is inside the State Store at a time, and it holds the
\* mutex; while a round is between its lookup and its insertion the state it
\* looked up is still the parent's recorded state, and every head another round
\* obtained from the STF is already a key of the store (no insertion of another
\* round is pending).
C2_AdvanceIsExclusive ==
    \A r \in Rounds :
        /\ InsideStore(r) => lock_holder = r
        /\ InsideStore(r) => \A q \in Rounds : InsideStore(q) => q = r
        /\ pc[r] \in {"looked_up", "executed"} =>
             /\ Unwrap(parent[r]) \in DOMAIN head_to_state
             /\ Unwrap(block_data[r]).state = head_to_state[Unwrap(parent[r])]
             /\ \A q \in Rounds \ {r} :
                    head_data[q] # None => Unwrap(head_data[q]) \in DOMAIN head_to_state

\* A round is between its lookup and its insertion while the other one waits for
\* the mutex
C2_Witness ==
    \E r, q \in Rounds : pc[r] = "executed" /\ pc[q] = "decoded"

ExecPrecondition ==
    /\ ex_out # None
    /\ Unwrap(ex_in).parent_hash = HeadData_hash(Unwrap(ex_in).parent_head)

PreStateDiffers ==
    hash_state(Unwrap(ex_in).block.state) # Unwrap(ex_in).parent_head.post_state

\* C3: called with parent_hash = digest(parent_head), execute returns the value
\* StateMismatch, with no header, exactly when the digest of block.state differs
\* from parent_head.post_state; it does not panic on such a body.
C3_MismatchDetection ==
    ExecPrecondition =>
        /\ (Unwrap(ex_out).tag = "StateMismatch" /\ Unwrap(ex_out).val = None)
              <=> PreStateDiffers
        /\ Unwrap(ex_out).tag = "StateMismatch" => Unwrap(ex_out).val = None
        /\ PreStateDiffers => Unwrap(ex_out).tag # "Panic"

\* execute has rejected a body whose state is not the parent's post state
C3_Witness ==
    /\ ExecPrecondition
    /\ PreStateDiffers
    /\ Unwrap(ex_out).tag = "StateMismatch"

ExecAccepted == ExecPrecondition /\ ~PreStateDiffers

\* The header the claim C4 describes for the arguments of the call
ExpectedHead ==
    [number |-> Unwrap(ex_in).parent_head.number + 1,
     parent_hash |-> Unwrap(ex_in).parent_hash,
     post_state |->
        hash_state((Unwrap(ex_in).block.state + Unwrap(ex_in).block.add) % U64Modulus)]

\* C4 as stated: for every parent_head and block that pass the pre-state check,
\* execute returns the header with number = parent_head.number + 1, the given
\* parent_hash and post_state = digest((block.state + block.add) mod 2^w).
C4_AsStated == ExecAccepted => Unwrap(ex_out) = Ok(ExpectedHead)

\* C4, amended: the same for every parent_head whose number is below the maximum
\* of the counter; a state sum beyond the maximum wraps (max - 3 plus 7 is 3).  At
\* number = max the increment of the number overflows: the call panics or the
\* number wraps to 0.
C4_TransitionOutput ==
    /\ ExecAccepted /\ Unwrap(ex_in).parent_head.number < MaxU64 =>
          Unwrap(ex_out) = Ok(ExpectedHead)
    /\ ExecAccepted /\ Unwrap(ex_in).parent_head.number < MaxU64
          /\ Unwrap(ex_in).block.state = MaxU64 - 3 /\ Unwrap(ex_in).block.add = 7 =>
          Unwrap(Unwrap(ex_out).val).post_state = hash_state(3)
    /\ ExecAccepted /\ Unwrap(ex_in).parent_head.number = MaxU64 =>
          \/ Unwrap(ex_out) = Panic
          \/ Unwrap(ex_out) = Ok([ExpectedHead EXCEPT !.number = 0])

\* execute has returned a header for state = max - 3 and add = 7
C4_Witness ==
    /\ ExecAccepted
    /\ Unwrap(ex_in).block.state = MaxU64 - 3
    /\ Unwrap(ex_in).block.add = 7
    /\ Unwrap(ex_out).tag = "Ok"

\* The number of advancements that lead from the genesis head to head h along
\* the store's heads, each linked to the head it was advanced from by
\* parent_hash (-1 when the chain is broken)
RECURSIVE Advancements(_)
Advancements(h) ==
    IF h = genesis_state THEN 0
    ELSE IF \E p \in DOMAIN head_to_state : HeadData_hash(p) = h.parent_hash
         THEN LET p == CHOOSE q \in DOMAIN head_to_state : HeadData_hash(q) = h.parent_hash
                  n == Advancements(p)
              IN  IF n < 0 THEN -1 ELSE n + 1
         ELSE -1

\* C5: the head an advance returns is linked by parent_hash to the head it was
\* advanced from, and its number is the number of advancements from genesis: one
\* more than the number of advancements that led to its parent.
C5_MonotonicNumbering ==
    \A r \in Rounds :
        head_data[r] # None =>
            LET h == Unwrap(head_data[r])
                p == Unwrap(parent[r])
            IN  /\ h.parent_hash = HeadData_hash(p)
                /\ Advancements(p) >= 0
                /\ h.number = Advancements(p) + 1

\* The second advancement of a chain from genesis has returned its head
C5_Witness ==
    \E r, q \in Rounds :
        /\ head_data[r] # None /\ head_data[q] # None
        /\ parent[q] = Some(genesis_state)
        /\ parent[r] = head_data[q]
        /\ Unwrap(head_data[r]).number = 2

\* C6: the proof of a round's collation decodes to a BlockData B and its header
\* to a HeadData H such that execute(digest(P), P, B) on the round's parent P
\* returns exactly H; B.state is the state recorded for P and B.add is ADD.
C6_ReExecution ==
    \A r \in Rounds :
        collation[r] # None =>
            LET c == Unwrap(collation[r])
                P == Unwrap(parent[r])
                B == BlockData_decode(c.proof_of_validity.block_data)
                H == HeadData_decode(c.head_data)
            IN  /\ IsSome(B) /\ IsSome(H)
                /\ c.proof_of_validity.block_data = BlockData_encode(Unwrap(B))
                /\ c.head_data = HeadData_encode(Unwrap(H))
                /\ \A overflow_checks \in BOOLEAN :
                      execute(overflow_checks, HeadData_hash(P), P, Unwrap(B)) = Ok(Unwrap(H))
                /\ P \in DOMAIN head_to_state
                /\ Unwrap(B).state = head_to_state[P]
                /\ Unwrap(B).add = 7

\* A collation was produced on a parent whose recorded state is not 0
C6_Witness ==
    \E r \in Rounds :
        /\ collation[r] # None
        /\ Unwrap(parent[r]).number = 1
        /\ head_to_state[Unwrap(parent[r])] = 7

\* The header the claim C7 describes: number 0, 32 zero bytes, digest of encoded 0
C7_Header == [number |-> 0, parent_hash |-> 0, post_state |-> hash(u64_encode(0))]

\* C7: genesis() is the store with the single entry C7_Header -> 0; the store of
\* a collator no round has entered is that store; and the header of the second
\* genesis construction, the one the export encodes, is the key the collator's
\* own construction put in the store, with the same digest.
C7_GenesisStore ==
    /\ Cardinality(DOMAIN genesis) = 1
    /\ genesis = (C7_Header :> 0)
    /\ (\A r \in Rounds : pc[r] = "idle") => head_to_state = genesis
    /\ genesis_export # None =>
          LET exported == HeadData_decode(Unwrap(genesis_export)) IN
          /\ IsSome(exported)
          /\ Unwrap(exported) = C7_Header
          /\ Unwrap(exported) \in DOMAIN head_to_state
          /\ head_to_state[Unwrap(exported)] = 0
          /\ \A k \in DOMAIN head_to_state :
                k.number = 0 =>
                    /\ k = Unwrap(exported)
                    /\ HeadData_hash(k) = HeadData_hash(Unwrap(exported))

\* The genesis head was exported from a collator whose store has grown
C7_Witness ==
    /\ genesis_export # None
    /\ Cardinality(DOMAIN head_to_state) > 1

SomeMismatched == \E r \in Rounds : watcher[r] = "Mismatched"

\* C8: a watcher on the Mismatched path exits the process in the same step, and
\* from then on no round moves or produces a collation, the store is not
\* changed and no watcher changes its state.
C8_MismatchTerminates ==
    /\ [](SomeMismatched => process = "exited")
    /\ [][SomeMismatched =>
            /\ head_to_state' = head_to_state
            /\ collation' = collation
            /\ watcher' = watcher
            /\ pc' = pc
            /\ process' = "exited"]_vars

\* A watcher ended Mismatched while another round was inside advance, its
\* insertion still to come
C8_Witness ==
    \E r, q \in Rounds :
        /\ watcher[r] = "Mismatched"
        /\ pc[q] = "executed"
        /\ Unwrap(head_data[q]) \notin DOMAIN head_to_state

\* C9: a watcher becomes Abandoned only from awaiting on a closed channel that
\* carried no signal, in a step that leaves the process running and changes
\* nothing else: the store, the mutex, every round's position and collation and
\* every other watcher and channel; a watcher awaiting on a closed channel can
\* only become Abandoned, and Abandoned is terminal.
C9_AbandonedIsQuiet ==
    /\ [](\A r \in Rounds :
            watcher[r] = "Abandoned" => res[r] = None /\ channel[r].st = "closed")
    /\ [][\A r \in Rounds :
            watcher[r] # "Abandoned" /\ watcher'[r] = "Abandoned" =>
                /\ watcher[r] = "awaiting"
                /\ channel[r].st = "closed"
                /\ process = "running" /\ process' = "running"
                /\ head_to_state' = head_to_state
                /\ UNCHANGED <<lock_holder, poisoned, pc, parent, block_data, head_data,
                               collation, watch_hash, channel, res, genesis_export>>
                /\ \A q \in Rounds \ {r} : watcher'[q] = watcher[q]]_vars
    /\ [][\A r \in Rounds :
            watcher[r] = "awaiting" /\ channel[r].st = "closed"
                /\ watcher'[r] # "awaiting" => watcher'[r] = "Abandoned"]_vars
    /\ [][\A r \in Rounds : watcher[r] = "Abandoned" => watcher'[r] = "Abandoned"]_vars

\* A watcher was abandoned, the process runs and another round's watcher has
\* confirmed
C9_Witness ==
    \E r, q \in Rounds :
        /\ watcher[r] = "Abandoned"
        /\ process = "running"
        /\ watcher[q] = "Confirmed"

\* C10: every key of the store is the genesis header or the header execute
\* returns for a parent that is a key of the store, on that parent's recorded
\* state with the increment ADD.
C10_KeysAreProduced ==
    \A k \in DOMAIN head_to_state :
        \/ k = C7_Header
        \/ \E p \in DOMAIN head_to_state :
              \A overflow_checks \in BOOLEAN :
                  execute(overflow_checks, HeadData_hash(p), p,
                          [state |-> head_to_state[p], add |-> 7]) = Ok(k)

\* The store holds a head two advancements away from genesis
C10_Witness ==
    \E k \in DOMAIN head_to_state : k.number = 2 /\ head_to_state[k] = 14

PastInsert(r) == pc[r] \in {"inserted", "advanced", "returned"}

\* C11: the store only grows: in every step every key stays a key and keeps the
\* state it maps to, also when a parent is advanced again and its child is
\* inserted a second time.
C11_StoreOnlyGrows ==
    [][\A k \in DOMAIN head_to_state :
          /\ k \in DOMAIN head_to_state'
          /\ head_to_state'[k] = head_to_state[k]]_vars

\* Two rounds advanced the same parent and both inserted its child
C11_Witness ==
    \E r, q \in Rounds :
        /\ r # q
        /\ PastInsert(r) /\ PastInsert(q)
        /\ parent[r] = parent[q]
        /\ Cardinality(DOMAIN head_to_state) = 2

\* The canonical encoding of the genesis header: the number 0 in U64Bytes zero
\* bytes, the zero parent_hash, the digest of the encoded state 0
C12_GenesisBytes == [i \in 1..U64Bytes |-> 0] \o <<0, hash([i \in 1..U64Bytes |-> 0])>>

\* C12: whatever the store holds, an export returns the canonical encoding of
\* the genesis header, and the step of an export changes nothing but the
\* returned bytes.
C12_GenesisExport ==
    /\ [](genesis_export # None => genesis_export = Some(C12_GenesisBytes))
    /\ [][genesis_export' # genesis_export =>
            /\ genesis_export' = Some(C12_GenesisBytes)
            /\ UNCHANGED <<head_to_state, lock_holder, poisoned, process, pc, parent,
                           block_data, head_data, collation, watch_hash, channel,
                           watcher, res>>]_vars

\* The export was made after two rounds had advanced the store
C12_Witness ==
    /\ genesis_export # None
    /\ Cardinality(DOMAIN head_to_state) = 3

\* C13: the mutex is held only by a round that is inside advance; a round
\* returns its collation with an open channel and an awaiting watcher that has
\* received nothing; an awaiting watcher belongs to a round that has returned
\* and holds no mutex.
C13_ProductionDecoupled ==
    /\ [](lock_holder # 0 => InsideStore(lock_holder))
    /\ [](\A r \in Rounds :
            watcher[r] = "awaiting" =>
                pc[r] = "returned" /\ lock_holder # r /\ res[r] = None)
    /\ [][\A r \in Rounds :
            pc[r] # "returned" /\ pc'[r] = "returned" =>
                /\ collation'[r] # None
                /\ channel'[r].st = "open"
                /\ watcher'[r] = "awaiting"
                /\ res'[r] = None]_vars

\* A later round advanced from the head of an earlier round and returned while
\* the earlier round's watcher was still awaiting on its open channel
C13_Witness ==
    \E r, q \in Rounds :
        /\ watcher[r] = "awaiting" /\ channel[r].st = "open"
        /\ pc[q] = "returned"
        /\ parent[q] = head_data[r]

NothingProduced(r) ==
    /\ block_data[r] = None
    /\ head_data[r] = None
    /\ collation[r] = None
    /\ watch_hash[r] = None
    /\ watcher[r] = "none"
    /\ channel[r].st = "none"

\* C15: a round that holds the mutex with a parent that is not a key of the
\* store can only panic, in a step that builds no block, calls no STF, inserts
\* nothing, produces no collation and spawns no watcher; a round that failed
\* after decoding its parent has produced nothing and stays failed.
C15_UnknownParentIsFatal ==
    /\ [][\A r \in Rounds :
            pc[r] = "locked" /\ Unwrap(parent[r]) \notin DOMAIN head_to_state
                /\ pc'[r] # "locked" =>
                    /\ pc'[r] = "panicked"
                    /\ head_to_state' = head_to_state
                    /\ UNCHANGED <<block_data, head_data, collation, watch_hash, channel,
                                   watcher, res>>]_vars
    /\ [](\A r \in Rounds : pc[r] = "panicked" /\ parent[r] # None => NothingProduced(r))
    /\ [][\A r \in Rounds : pc[r] = "panicked" => pc'[r] = "panicked"]_vars

\* A round given a head the store does not hold has failed in advance; no
\* other round has run
C15_Witness ==
    \E r \in Rounds :
        /\ pc[r] = "panicked"
        /\ parent[r] = Some(unknown_head)
        /\ \A q \in Rounds \ {r} : pc[q] = "idle"
        /\ head_to_state = genesis

\* C16: the invocation of a round on bytes that do not decode to a header is a
\* step to the failed position that leaves the store, the mutex and its poison
\* flag unchanged and produces nothing; the round has no parent, no block, no
\* collation and no watcher.
C16_DecodeFailureIsFatal ==
    /\ [][\A r \in Rounds : \A bytes \in ParentInputs :
            HeadData_decode(bytes) = None /\ StartRound(r, bytes) =>
                /\ pc'[r] = "panicked"
                /\ parent'[r] = None
                /\ UNCHANGED <<head_to_state, lock_holder, poisoned, process, block_data,
                               head_data, collation, watch_hash, channel, watcher, res>>]_vars
    /\ [][\A r \in Rounds :
            pc[r] = "idle" /\ pc'[r] = "panicked" =>
                UNCHANGED <<head_to_state, lock_holder, poisoned>>]_vars
    /\ [](\A r \in Rounds :
            pc[r] = "panicked" /\ parent[r] = None =>
                NothingProduced(r) /\ lock_holder # r)

\* A round failed to decode its parent while another round held the mutex,
\* which is not poisoned
C16_Witness ==
    \E r, q \in Rounds :
        /\ pc[r] = "panicked" /\ parent[r] = None
        /\ lock_holder = q /\ q # r
        /\ ~poisoned

Signalled(r) == channel[r].st \in {"sent", "closed"}

\* The safety half of C17: the delivery point carries at most one result and
\* never reopens, a received result and a terminal state never change, and a
\* watcher whose delivery point stays open stays awaiting.
C17_Safety ==
    [][\A r \in Rounds :
        /\ channel[r].st \in {"sent", "closed", "taken"} =>
              /\ channel'[r].st # "open"
              /\ channel'[r] = channel[r] \/ channel'[r].st = "taken"
        /\ channel[r].st \in {"closed", "taken"} => channel'[r] = channel[r]
        /\ res[r] # None => res'[r] = res[r]
        /\ Resolved(r) => watcher'[r] = watcher[r]
        /\ watcher[r] = "awaiting" /\ channel[r].st = "open" /\ channel'[r].st = "open"
              => watcher'[r] = "awaiting"]_vars

\* The statement of C17 as written: once the delivery point has a result or
\* is dropped, the watcher reaches Confirmed, Mismatched or Abandoned.
C17_AsStated ==
    /\ C17_Safety
    /\ \A r \in Rounds : (watcher[r] = "awaiting" /\ Signalled(r)) ~> Resolved(r)

\* C17 (amended): at most one signal and one terminal state, never left; a
\* watcher whose delivery point has a result or is dropped reaches Confirmed,
\* Mismatched or Abandoned unless the process has exited on the mismatch of
\* another watcher; with the delivery point left open it stays awaiting.
C17_WatcherResolution ==
    /\ C17_Safety
    /\ \A r \in Rounds :
          (watcher[r] = "awaiting" /\ Signalled(r)) ~> (Resolved(r) \/ process = "exited")

\* One watcher has exited the process on a mismatch while another, whose
\* result was delivered, is still awaiting
C17_Witness ==
    \E r, q \in Rounds :
        /\ watcher[r] = "Mismatched" /\ res[r] # None
        /\ watcher[q] = "awaiting" /\ channel[q].st = "sent"
        /\ process = "exited"

\* C18: every entry of the store maps a header to the value whose digest is
\* the header's post_state, so the STF accepts the block advance builds for
\* any key of the store, and a round whose parent is a key of the store goes
\* through the lookup and the STF call without failing.
C18_StoreIsConsistent ==
    /\ [](\A k \in DOMAIN head_to_state :
            /\ k.post_state = hash_state(head_to_state[k])
            /\ IsSome(advance_block(head_to_state, k))
            /\ \A overflow_checks \in BOOLEAN :
                 advance_execute(overflow_checks, k,
                                 Unwrap(advance_block(head_to_state, k))).tag = "Ok")
    /\ [](\A r \in Rounds : pc[r] = "panicked" => block_data[r] = None)
    /\ [][\A r \in Rounds :
            pc[r] \in {"locked", "looked_up"} /\ pc'[r] # pc[r]
                /\ Unwrap(parent[r]) \in DOMAIN head_to_state =>
                    /\ pc[r] = "locked" => pc'[r] = "looked_up"
                    /\ pc[r] = "looked_up" => pc'[r] = "executed"
                    /\ ~poisoned']_vars

\* A round has advanced a parent that is not the genesis head
C18_Witness ==
    \E r \in Rounds :
        /\ PastInsert(r)
        /\ Unwrap(parent[r]) # genesis_state
        /\ Unwrap(head_data[r]) \in DOMAIN head_to_state
        /\ Cardinality(DOMAIN head_to_state) = 3

\* C19: the keys of the store are one chain from genesis, numbered 0, 1, 2, ...
\* with one header per number; two rounds given the same parent obtain the
\* same BlockData and HeadData, and the insertion of the later one leaves the
\* store as it was.
C19_SingleChain ==
    /\ [](\A k, j \in DOMAIN head_to_state : k.number = j.number => k = j)
    /\ [](\A k \in DOMAIN head_to_state :
            \/ k = genesis_state
            \/ \E p \in DOMAIN head_to_state :
                 /\ k.number = p.number + 1
                 /\ k.parent_hash = HeadData_hash(p))
    /\ [](\A r, q \in Rounds :
            parent[r] # None /\ parent[r] = parent[q] =>
                /\ block_data[r] # None /\ block_data[q] # None
                      => block_data[r] = block_data[q]
                /\ head_data[r] # None /\ head_data[q] # None
                      => head_data[r] = head_data[q])
    /\ [][\A r \in Rounds :
            pc[r] = "executed" /\ pc'[r] = "inserted"
                /\ (\E q \in Rounds \ {r} : PastInsert(q) /\ parent[q] = parent[r])
                => head_to_state' = head_to_state]_vars

\* Two rounds were given the genesis head, the second after the first had
\* inserted, and both have inserted
C19_Witness ==
    \E r, q \in Rounds :
        /\ r # q
        /\ PastInsert(r) /\ PastInsert(q)
        /\ parent[r] = Some(genesis_state) /\ parent[q] = Some(genesis_state)
        /\ head_data[r] = head_data[q]
        /\ Cardinality(DOMAIN head_to_state) = 2

NotYetInStore(r) == pc[r] \in {"idle", "decoded", "panicked"}

\* C20: the mutex is poisoned only by a round that failed in advance on an
\* unknown parent; once it is poisoned it stays poisoned, the store never
\* changes again, no round enters the store, and a round that had not entered
\* it before can only fail: it never gets a block, a header or a collation.
C20_PoisonIsPermanent ==
    /\ [](poisoned =>
            /\ lock_holder = 0
            /\ \A r \in Rounds : ~InsideStore(r)
            /\ \E r \in Rounds :
                 /\ pc[r] = "panicked" /\ parent[r] # None
                 /\ Unwrap(parent[r]) \notin DOMAIN head_to_state)
    /\ [][poisoned =>
            /\ poisoned'
            /\ head_to_state' = head_to_state
            /\ \A r \in Rounds :
                 NotYetInStore(r) =>
                    /\ NotYetInStore(r)'
                    /\ collation'[r] = None /\ head_data'[r] = None
                    /\ watcher'[r] = "none"]_vars

\* After a round failed on an unknown parent, another round given the genesis
\* head, which the store holds, has failed too
C20_Witness ==
    \E r, q \in Rounds :
        /\ poisoned
        /\ pc[r] = "panicked" /\ parent[r] = Some(unknown_head)
        /\ pc[q] = "panicked" /\ parent[q] = Some(genesis_state)
        /\ collation[q] = None

====
